---- MODULE Spec2Model ----
(***************************************************************************)
(* A model of api.go of the digitalocean client library: the Client and    *)
(* Client.NewRequest (request construction), and checkResp with its        *)
(* helpers parseErr and decodeBody (response validation).                  *)
(*                                                                         *)
(* Text is a sequence of one-character strings; a literal of a format      *)
(* string is kept as one multi-character element, so fmt.Sprintf is \o.    *)
(* A response body is the sequence of JSON lexical tokens it holds.        *)
(***************************************************************************)
EXTENDS Integers, Sequences, FiniteSets, TLC

VARIABLES
    pc,       \* where the caller is: "start", "client", "built", "idle", "responded", "checked"
    client,   \* the *Client NewClient returned
    call,     \* the arguments of the last Client.NewRequest call
    built,    \* what the last Client.NewRequest call returned: [req, err]
    arg,      \* the (resp, err) pair http.Client.Do produced, checkResp's arguments
    heap,     \* the http.Response object the resp pointer refers to
    ret       \* the (resp, err) pair checkResp returned

vars == <<pc, client, call, built, arg, heap, ret>>

(***************************************************************************)
(* Bounds of the model.                                                    *)
(***************************************************************************)
\* the largest number of members of a generated JSON object body
MaxMembers == 2
\* the largest number of entries of a parameter mapping
MaxParams == 2

(***************************************************************************)
(* Errors.  An error is its dynamic type and its Error() text.             *)
(***************************************************************************)
Nil == [type |-> "nil", msg |-> <<>>]

Errorf(text) == [type |-> "errorString", msg |-> text]

\* errors a transport can report from http.Client.Do
TransportErrs ==
    { [type |-> "net.OpError", msg |-> <<"dial tcp: i/o timeout">>],
      [type |-> "url.Error",   msg |-> <<"stopped after 10 redirects">>] }

\* the error a failing body stream reports to a reader
ErrUnexpectedEOF == [type |-> "io.ErrUnexpectedEOF", msg |-> <<"unexpected EOF">>]

(***************************************************************************)
(* JSON text, as encoding/json scans it.                                   *)
(***************************************************************************)
Tok(t) == [t |-> t, raw |-> <<>>]

\* a string literal; raw is the text between its quotes
Str(raw) == [t |-> "str", raw |-> raw]

\* the characters that may follow a backslash in a string literal
EscapeOf(c) ==
    CASE c = "n"  -> "\n"
      [] c = "t"  -> "\t"
      [] c = "\"" -> "\""
      [] c = "\\" -> "\\"
      [] OTHER    -> "invalid"

\* raw[i..] is well formed: every backslash starts a known escape
RECURSIVE ValidRaw(_, _)
ValidRaw(raw, i) ==
    IF i > Len(raw) THEN TRUE
    ELSE IF raw[i] = "\\"
         THEN /\ i + 1 <= Len(raw)
              /\ EscapeOf(raw[i + 1]) # "invalid"
              /\ ValidRaw(raw, i + 2)
         ELSE ValidRaw(raw, i + 1)

\* the Go string the valid string literal text raw[i..] denotes
RECURSIVE Unquote(_, _)
Unquote(raw, i) ==
    IF i > Len(raw) THEN <<>>
    ELSE IF raw[i] = "\\"
         THEN <<EscapeOf(raw[i + 1])>> \o Unquote(raw, i + 2)
         ELSE <<raw[i]>> \o Unquote(raw, i + 1)

\* decoded JSON values: kind, string value, object members
Value(k, s, m) == [k |-> k, s |-> s, m |-> m]

ParseOk(next, v) == [ok |-> TRUE, next |-> next, v |-> v]

\* the scan fails at token position at
ParseFail(at) == [ok |-> FALSE, next |-> at, v |-> Value("none", <<>>, <<>>)]

\* F applied to the value of e, which is computed once
With(e, F(_)) == CHOOSE y \in {F(x) : x \in {e}} : TRUE

RECURSIVE ParseValue(_, _)
RECURSIVE ParseElems(_, _)
RECURSIVE ParseMembers(_, _, _)

\* one JSON value starting at token i of b
ParseValue(b, i) ==
    IF i > Len(b) THEN ParseFail(i)
    ELSE LET tk == b[i] IN
         CASE tk.t = "null" -> ParseOk(i + 1, Value("null", <<>>, <<>>))
           [] tk.t \in {"true", "false"} -> ParseOk(i + 1, Value("bool", <<>>, <<>>))
           [] tk.t = "num" -> ParseOk(i + 1, Value("number", <<>>, <<>>))
           [] tk.t = "str" ->
                IF ValidRaw(tk.raw, 1)
                THEN ParseOk(i + 1, Value("string", Unquote(tk.raw, 1), <<>>))
                ELSE ParseFail(i)
           [] tk.t = "[" ->
                IF i + 1 <= Len(b) /\ b[i + 1].t = "]"
                THEN ParseOk(i + 2, Value("array", <<>>, <<>>))
                ELSE ParseElems(b, i + 1)
           [] tk.t = "{" ->
                IF i + 1 <= Len(b) /\ b[i + 1].t = "}"
                THEN ParseOk(i + 2, Value("object", <<>>, <<>>))
                ELSE ParseMembers(b, i + 1, <<>>)
           [] OTHER -> ParseFail(i)

\* the elements of an array after its "[" or a ","
ParseElems(b, i) ==
    With(ParseValue(b, i), LAMBDA r :
        IF ~r.ok THEN r
        ELSE IF r.next > Len(b) THEN ParseFail(r.next)
        ELSE IF b[r.next].t = "," THEN ParseElems(b, r.next + 1)
        ELSE IF b[r.next].t = "]" THEN ParseOk(r.next + 1, Value("array", <<>>, <<>>))
        ELSE ParseFail(r.next))

\* the members of an object after its "{" or a ","; acc holds those scanned
ParseMembers(b, i, acc) ==
    IF i > Len(b) THEN ParseFail(i)
    ELSE IF ~(b[i].t = "str" /\ ValidRaw(b[i].raw, 1)) THEN ParseFail(i)
    ELSE IF i + 1 > Len(b) THEN ParseFail(i + 1)
    ELSE IF b[i + 1].t # ":" THEN ParseFail(i + 1)
    ELSE With(ParseValue(b, i + 2), LAMBDA r :
        IF ~r.ok THEN r
        ELSE With(Append(acc, [key |-> Unquote(b[i].raw, 1), val |-> r.v]), LAMBDA mem :
            IF r.next > Len(b) THEN ParseFail(r.next)
            ELSE IF b[r.next].t = "," THEN ParseMembers(b, r.next + 1, mem)
            ELSE IF b[r.next].t = "}" THEN ParseOk(r.next + 1, Value("object", <<>>, mem))
            ELSE ParseFail(r.next)))

\* a whole document: one value and nothing after it
ParseJSON(b) ==
    With(ParseValue(b, 1), LAMBDA r :
        IF r.ok /\ r.next <= Len(b) THEN ParseFail(r.next) ELSE r)

\* the *json.SyntaxError of a document whose scan failed at token position at
SyntaxError(b, at) ==
    [type |-> "json.SyntaxError",
     msg  |-> IF at > Len(b) THEN <<"unexpected end of JSON input">>
              ELSE <<"invalid character">>]

\* the *json.UnmarshalTypeError of a JSON value of kind k met where goType is wanted
UnmarshalTypeError(k, goType) ==
    [type |-> "json.UnmarshalTypeError",
     msg  |-> <<"json: cannot unmarshal ", k, " into Go value of type ", goType>>]

(***************************************************************************)
(* DoError and json.Unmarshal into it.                                     *)
(***************************************************************************)
\* new(DoError)
ZeroDoError == [Id |-> <<>>, Message |-> <<>>]

\* the json names of DoError's fields, from its struct tags
DoErrorTags == [Id |-> <<"i", "d">>, Message |-> <<"m", "e", "s", "s", "a", "g", "e">>]

Lower(c) ==
    CASE c = "I" -> "i"
      [] c = "D" -> "d"
      [] c = "M" -> "m"
      [] OTHER   -> c

Fold(s) == [i \in 1..Len(s) |-> Lower(s[i])]

\* FieldFor matching the tag exactly only
FieldFor_exactOnly(key) ==
    IF \E f \in DOMAIN DoErrorTags : DoErrorTags[f] = key
    THEN CHOOSE f \in DOMAIN DoErrorTags : DoErrorTags[f] = key
    ELSE "none"

\* the field of DoError an object key is stored to: its tag matches exactly
\* or, failing that, without regard to case; "none" when no field does
FieldFor(key) ==
    IF \E f \in DOMAIN DoErrorTags : DoErrorTags[f] = key
    THEN CHOOSE f \in DOMAIN DoErrorTags : DoErrorTags[f] = key
    ELSE IF \E f \in DOMAIN DoErrorTags : Fold(DoErrorTags[f]) = Fold(key)
    THEN CHOOSE f \in DOMAIN DoErrorTags : Fold(DoErrorTags[f]) = Fold(key)
    ELSE "none"

\* the decoder keeps the first error it saved
SaveError(saved, e) == IF saved = Nil THEN e ELSE saved

\* store the members m[i..] of an object into the DoError out: a string is
\* stored, null leaves the field alone, any other value is a type error that
\* is saved while decoding goes on; unknown keys are skipped
RECURSIVE StoreMembers(_, _, _, _)
StoreMembers(m, i, out, saved) ==
    IF i > Len(m) THEN [err |-> saved, out |-> out]
    ELSE LET f == FieldFor(m[i].key)
             v == m[i].val
         IN  IF f = "none" THEN StoreMembers(m, i + 1, out, saved)
             ELSE IF v.k = "string"
                  THEN With([out EXCEPT ![f] = v.s], LAMBDA stored :
                           StoreMembers(m, i + 1, stored, saved))
             ELSE IF v.k = "null"
                  THEN StoreMembers(m, i + 1, out, saved)
             ELSE With(SaveError(saved, UnmarshalTypeError(v.k, "string")), LAMBDA e :
                      StoreMembers(m, i + 1, out, e))

\* json.Unmarshal(body, &out) where out holds a *DoError: the document is
\* checked whole first; null stores nothing in the DoError; an object is
\* stored member by member; any other value is a type error
Unmarshal(body, out) ==
    With(ParseJSON(body), LAMBDA r :
        IF ~r.ok THEN [err |-> SyntaxError(body, r.next), out |-> out]
        ELSE IF r.v.k = "null" THEN [err |-> Nil, out |-> out]
        ELSE IF r.v.k = "object" THEN StoreMembers(r.v.m, 1, out, Nil)
        ELSE [err |-> UnmarshalTypeError(r.v.k, "digitalocean.DoError"), out |-> out])

(***************************************************************************)
(* The response body stream (an io.ReadCloser).                            *)
(***************************************************************************)
\* a fresh stream holding data; fail: reading it ends in an error
Stream(data, fail) == [data |-> data, off |-> 0, reads |-> 0, closes |-> 0, fail |-> fail]

\* ioutil.ReadAll(body): everything not read yet, or the stream's error
ReadAll(body) ==
    IF body.fail
    THEN [data |-> <<>>, err |-> ErrUnexpectedEOF,
          body |-> [body EXCEPT !.reads = @ + 1]]
    ELSE [data |-> SubSeq(body.data, body.off + 1, Len(body.data)), err |-> Nil,
          body |-> [body EXCEPT !.reads = @ + 1, !.off = Len(body.data)]]

\* body.Close()
Close(body) == [body EXCEPT !.closes = @ + 1]

(***************************************************************************)
(* decodeBody, parseErr, checkResp.  Each takes the http.Response object   *)
(* obj its resp pointer refers to and returns it as the call leaves it.    *)
(***************************************************************************)
\* the status codes checkResp names
StatusOK == 200
StatusNoContent == 204

\* decodeBody closing the body only after a read that succeeded
decodeBody_closeAfterErrCheck(obj, out) ==
    LET rd == ReadAll(obj.Body) IN
    IF rd.err # Nil
    THEN [err |-> rd.err, out |-> out, obj |-> [obj EXCEPT !.Body = rd.body]]
    ELSE LET u == Unmarshal(rd.data, out)
         IN  [err |-> u.err, out |-> u.out, obj |-> [obj EXCEPT !.Body = Close(rd.body)]]

\* decodeBody dropping json.Unmarshal's error
decodeBody_dropsUnmarshalErr(obj, out) ==
    LET rd     == ReadAll(obj.Body)
        closed == [obj EXCEPT !.Body = Close(rd.body)]
    IN  IF rd.err # Nil
        THEN [err |-> rd.err, out |-> out, obj |-> closed]
        ELSE [err |-> Nil, out |-> Unmarshal(rd.data, out).out, obj |-> closed]

\* decodeBody(resp, out) with out a *DoError
decodeBody(obj, out) ==
    LET rd     == ReadAll(obj.Body)
        closed == [obj EXCEPT !.Body = Close(rd.body)]
    IN  IF rd.err # Nil
        THEN [err |-> rd.err, out |-> out, obj |-> closed]
        ELSE LET u == Unmarshal(rd.data, out)
             IN  [err |-> u.err, out |-> u.out, obj |-> closed]

\* parseErr with the two fields of the DoError exchanged in the format
parseErr_swapsFields(obj) ==
    LET d == decodeBody(obj, ZeroDoError) IN
    IF d.err # Nil
    THEN [err |-> Errorf(<<"Error parsing error body for non-200 request: ">> \o d.err.msg),
          obj |-> d.obj]
    ELSE [err |-> Errorf(<<"API Error: ">> \o d.out.Message \o <<": ">> \o d.out.Id),
          obj |-> d.obj]

\* parseErr(resp)
parseErr(obj) ==
    LET d == decodeBody(obj, ZeroDoError) IN
    IF d.err # Nil
    THEN [err |-> Errorf(<<"Error parsing error body for non-200 request: ">> \o d.err.msg),
          obj |-> d.obj]
    ELSE [err |-> Errorf(<<"API Error: ">> \o d.out.Id \o <<": ">> \o d.out.Message),
          obj |-> d.obj]

\* checkResp looking at the response before the error
checkResp_statusFirst(resp, err, obj) ==
    IF resp # "nil" /\ (obj.StatusCode # StatusOK \/ obj.StatusCode # StatusNoContent)
    THEN LET p == parseErr(obj)
         IN  [resp |-> resp, err |-> p.err, obj |-> p.obj]
    ELSE [resp |-> resp, err |-> err, obj |-> obj]

\* checkResp(resp, err); obj is *resp, read only when err is nil
checkResp(resp, err, obj) ==
    IF err # Nil
    THEN [resp |-> resp, err |-> err, obj |-> obj]
    ELSE IF obj.StatusCode # StatusOK \/ obj.StatusCode # StatusNoContent
         THEN LET p == parseErr(obj)
              IN  [resp |-> resp, err |-> p.err, obj |-> p.obj]
         ELSE [resp |-> resp, err |-> Nil, obj |-> obj]

(***************************************************************************)
(* The responses a server can send.                                        *)
(***************************************************************************)
Statuses == {200, 204, 404, 500}

SeqsUpTo(S, n) == UNION {[1..k -> S] : k \in 0..n}

\* object keys: DoError's two, one differing in case only, one unknown
Keys == { <<"i", "d">>, <<"m", "e", "s", "s", "a", "g", "e">>, <<"I", "D">>, <<"x">> }

\* member values: two strings (one with an escape), null, a number
MemberVals == { Str(<<"o", "k">>), Str(<<"a", "\\", "n">>), Tok("null"), Tok("num") }

RECURSIVE RenderMembers(_, _)
RenderMembers(ms, i) ==
    IF i > Len(ms) THEN <<>>
    ELSE (IF i > 1 THEN <<Tok(",")>> ELSE <<>>)
         \o <<Str(ms[i][1]), Tok(":"), ms[i][2]>>
         \o RenderMembers(ms, i + 1)

\* the text of the object with members ms, each a <<key, value token>>
RenderObject(ms) == <<Tok("{")>> \o RenderMembers(ms, 1) \o <<Tok("}")>>

ObjectBodies == {RenderObject(ms) : ms \in SeqsUpTo(Keys \X MemberVals, MaxMembers)}

\* documents that are JSON but no object
NonObjectBodies ==
    { <<Tok("null")>>, <<Tok("true")>>, <<Tok("num")>>, <<Str(<<"o", "k">>)>>,
      <<Tok("["), Tok("]")>>,
      <<Tok("["), Tok("num"), Tok(","), Str(<<"i", "d">>), Tok("]")>> }

\* objects whose members hold nested values
NestedBodies ==
    { <<Tok("{"), Str(<<"i", "d">>), Tok(":"), Tok("["), Tok("]"), Tok(","),
        Str(<<"m", "e", "s", "s", "a", "g", "e">>), Tok(":"), Str(<<"o", "k">>), Tok("}")>>,
      <<Tok("{"), Str(<<"m", "e", "s", "s", "a", "g", "e">>), Tok(":"),
        Tok("{"), Str(<<"i", "d">>), Tok(":"), Str(<<"o", "k">>), Tok("}"), Tok("}")>>,
      <<Tok("{"), Str(<<"x">>), Tok(":"), Tok("["), Tok("num"), Tok(","), Tok("{"), Tok("}"), Tok("]"),
        Tok(","), Str(<<"i", "d">>), Tok(":"), Str(<<"o", "k">>), Tok(","),
        Str(<<"m", "e", "s", "s", "a", "g", "e">>), Tok(":"), Str(<<"o", "k">>), Tok("}")>>,
      <<Tok("{"), Str(<<"i", "d">>), Tok(":"), Tok("true"), Tok("}")>> }

\* bodies that are not JSON: empty, an HTML page, truncated or broken text
MalformedBodies ==
    { <<>>,
      <<Tok("<html>")>>,
      <<Tok("{")>>,
      <<Tok("{"), Str(<<"i", "d">>), Tok(":")>>,
      <<Tok("{"), Str(<<"i", "d">>), Str(<<"o", "k">>), Tok("}")>>,
      <<Tok("{"), Str(<<"i", "d">>), Tok(":"), Str(<<"o", "k">>), Tok(","), Tok("}")>>,
      <<Tok("{"), Str(<<"i", "d">>), Tok(":"), Str(<<"\\", "q">>), Tok(","),
        Str(<<"m", "e", "s", "s", "a", "g", "e">>), Tok(":"), Str(<<"o", "k">>), Tok("}")>>,
      <<Tok("{"), Tok("}"), Tok("null")>>,
      <<Tok("["), Tok("num"), Tok(",")>>,
      <<Tok("{"), Str(<<"i", "d">>), Tok(":"), Str(<<"o", "k">>), Tok(","),
        Str(<<"m", "e", "s", "s", "a", "g", "e">>), Tok(":"), Str(<<"o", "k">>)>> }

Bodies == ObjectBodies \cup NonObjectBodies \cup NestedBodies \cup MalformedBodies

\* the http.Response a nil resp pointer leaves unallocated
NoResponse == [StatusCode |-> 0, Body |-> Stream(<<>>, FALSE)]

Response(status, data, fail) == [StatusCode |-> status, Body |-> Stream(data, fail)]

NoRet == [resp |-> "nil", err |-> Nil, returned |-> FALSE]

NoClient == [Token |-> <<>>, URL |-> <<>>]

(***************************************************************************)
(* Response validation: the caller runs a request and hands the pair       *)
(* http.Client.Do returned to checkResp.                                   *)
(***************************************************************************)
\* http.Client.Do returns a response and no error,
DoReturnsResponse ==
    /\ pc = "idle"
    /\ \E status \in Statuses, data \in Bodies, fail \in BOOLEAN :
          /\ arg' = [resp |-> "resp1", err |-> Nil]
          /\ heap' = Response(status, data, fail)
    /\ pc' = "responded"
    /\ UNCHANGED <<client, call, built, ret>>

\* or an error, with no response or (a refused redirect) with one
DoReturnsError ==
    /\ pc = "idle"
    /\ \E e \in TransportErrs :
          \/ /\ arg' = [resp |-> "nil", err |-> e]
             /\ heap' = NoResponse
          \/ \E status \in Statuses, data \in NonObjectBodies \cup MalformedBodies :
                /\ arg' = [resp |-> "resp1", err |-> e]
                /\ heap' = Response(status, data, FALSE)
    /\ pc' = "responded"
    /\ UNCHANGED <<client, call, built, ret>>

\* the caller passes the pair through checkResp
CheckResp ==
    /\ pc = "responded"
    /\ LET r == checkResp(arg.resp, arg.err, heap)
       IN  /\ ret' = [resp |-> r.resp, err |-> r.err, returned |-> TRUE]
           /\ heap' = r.obj
    /\ pc' = "checked"
    /\ UNCHANGED <<client, call, built, arg>>

Init ==
    /\ pc = "idle"
    /\ client = NoClient
    /\ call = <<>>
    /\ built = <<>>
    /\ arg = [resp |-> "nil", err |-> Nil]
    /\ heap = NoResponse
    /\ ret = NoRet

Next == DoReturnsResponse \/ DoReturnsError \/ CheckResp

Spec == Init /\ [][Next]_vars

(***************************************************************************)
(* Properties of checkResp.                                                *)
(***************************************************************************)
\* checkResp has returned for a response that came with no transport error
Checked == pc = "checked" /\ arg.err = Nil

Success == heap.StatusCode \in {StatusOK, StatusNoContent}

\* nothing has read or closed the body of the response
BodyUntouched == heap.Body.reads = 0 /\ heap.Body.closes = 0 /\ heap.Body.off = 0

\* the JSON document in the body
Doc == ParseJSON(heap.Body.data)

IsAPIError(e) == e.type = "errorString" /\ Head(e.msg) = "API Error: "

IsDecodeError(e) ==
    e.type = "errorString" /\ Head(e.msg) = "Error parsing error body for non-200 request: "

\* the members of the object Doc whose key is the json name of field f
MembersNamed(f) == {i \in 1..Len(Doc.v.m) : Doc.v.m[i].key = DoErrorTags[f]}

\* the members of the object Doc whose key is that name in any case
MembersFolding(f) == {i \in 1..Len(Doc.v.m) : Fold(Doc.v.m[i].key) = Fold(DoErrorTags[f])}

\* C1: with no transport error checkResp returns a nil error exactly when the
\* status is 200 or 204, and it returns the response it was given.
C1_NilErrorIffSuccess ==
    Checked => /\ (ret.err = Nil <=> Success)
               /\ ret.resp = arg.resp

\* C2: for a response with status 200 or 204 and no transport error checkResp
\* neither reads nor closes the body.
C2_SuccessLeavesBody == (Checked /\ Success) => BodyUntouched

\* C3: given a transport error checkResp returns that very error and the
\* response pointer it was given, and no body is read or closed.
C3_TransportErrorUnchanged ==
    (pc = "checked" /\ arg.err # Nil) =>
        /\ ret.err = arg.err
        /\ ret.resp = arg.resp
        /\ BodyUntouched

C3_Witness ==
    /\ pc = "checked"
    /\ arg.err \in TransportErrs
    /\ arg.resp = "resp1"
    /\ heap.StatusCode = 404
    /\ ret.err = arg.err

\* the body is an object with one member named id and one named message, both
\* strings, and no other member is stored to those fields
HasBothStrings ==
    /\ ~heap.Body.fail
    /\ Doc.ok /\ Doc.v.k = "object"
    /\ \A f \in DOMAIN DoErrorTags :
          /\ Cardinality(MembersNamed(f)) = 1
          /\ MembersFolding(f) = MembersNamed(f)
          /\ \A i \in MembersNamed(f) : Doc.v.m[i].val.k = "string"

StringOf(f) == Doc.v.m[CHOOSE i \in MembersNamed(f) : TRUE].val.s

C5_DecodeErrorWraps ==
    (Checked /\ ~Success /\ (heap.Body.fail \/ heap.Body.data \in MalformedBodies)) =>
        /\ IsDecodeError(ret.err)
        /\ ~IsAPIError(ret.err)
        /\ Tail(ret.err.msg) = IF heap.Body.fail THEN ErrUnexpectedEOF.msg
                               ELSE SyntaxError(heap.Body.data, Doc.next).msg

C5_Witness ==
    /\ Checked /\ heap.StatusCode = 500
    /\ heap.Body.data = <<Tok("<html>")>>
    /\ ret.err.msg = <<"Error parsing error body for non-200 request: ", "invalid character">>

\* C6: the body is closed once if it was read, also when the read or the
\* decoding failed, and not at all if it was not read.
C6_ClosedOnceIffRead ==
    heap.Body.closes = (IF heap.Body.reads > 0 THEN 1 ELSE 0)

C6_Witness ==
    /\ Checked /\ heap.Body.fail
    /\ heap.Body.reads = 1 /\ heap.Body.closes = 1

\* the body is an object that has a string member named id and one named message
StrictShape ==
    /\ ~heap.Body.fail
    /\ Doc.ok /\ Doc.v.k = "object"
    /\ \A f \in DOMAIN DoErrorTags : \E i \in MembersNamed(f) : Doc.v.m[i].val.k = "string"

\* C10 as stated: for a failure status an "API Error" is returned only for an
\* object with string fields id and message, every other body is a decode error.
C10_OnlyStrictShape ==
    (Checked /\ ~Success) =>
        /\ IsAPIError(ret.err) => StrictShape
        /\ ~StrictShape => IsDecodeError(ret.err)

\* the body is null, or an object in which every member stored to Id or
\* Message (its key is id or message in any case) is a string or null
LenientShape ==
    /\ ~heap.Body.fail
    /\ Doc.ok
    /\ \/ Doc.v.k = "null"
       \/ /\ Doc.v.k = "object"
          /\ \A f \in DOMAIN DoErrorTags : \A i \in MembersFolding(f) :
                Doc.v.m[i].val.k \in {"string", "null"}

\* C10 amended: for a failure status an "API Error" is returned exactly when
\* the body is read whole and is null or an object whose id and message
\* members, where it has any, are strings or null; every other body is a
\* decode error.
C10_LenientShape ==
    (Checked /\ ~Success) =>
        /\ IsAPIError(ret.err) <=> LenientShape
        /\ ~LenientShape => IsDecodeError(ret.err)

C10_Witness ==
    /\ Checked /\ heap.StatusCode = 404
    /\ heap.Body.data = <<Tok("{"), Tok("}")>>
    /\ ret.err.msg = <<"API Error: ", ": ">>

(***************************************************************************)
(* Request construction: url.Values, its encoding and decoding.            *)
(***************************************************************************)
DIGITALOCEAN_API_URL == <<"https://api.digitalocean.com/v2">>

\* the byte of each character the model writes
Code ==
    (" " :> 32) @@ ("%" :> 37) @@ ("&" :> 38) @@ ("+" :> 43) @@
    ("0" :> 48) @@ ("1" :> 49) @@ ("2" :> 50) @@ ("3" :> 51) @@ ("4" :> 52) @@
    ("5" :> 53) @@ ("6" :> 54) @@ ("7" :> 55) @@ ("8" :> 56) @@ ("9" :> 57) @@
    ("=" :> 61) @@
    ("A" :> 65) @@ ("B" :> 66) @@ ("C" :> 67) @@ ("D" :> 68) @@ ("E" :> 69) @@ ("F" :> 70) @@
    ("a" :> 97) @@ ("b" :> 98)

HexDigits == <<"0", "1", "2", "3", "4", "5", "6", "7", "8", "9", "A", "B", "C", "D", "E", "F">>

IsHex(c) == \E n \in 1..16 : HexDigits[n] = c

UnHex(c) == (CHOOSE n \in 1..16 : HexDigits[n] = c) - 1

\* the character of byte n; "?" stands for a byte the model never writes
CharOf(n) ==
    IF \E c \in DOMAIN Code : Code[c] = n
    THEN CHOOSE c \in DOMAIN Code : Code[c] = n
    ELSE "?"

\* a map from strings to lists of strings (url.Values, http.Header)
EmptyMap == [k \in {} |-> <<>>]

\* Values.Add and Header.Add: append value to the list of key
MapAdd(m, key, value) ==
    [k \in DOMAIN m \cup {key} |->
        IF k = key
        THEN IF key \in DOMAIN m THEN Append(m[key], value) ELSE <<value>>
        ELSE m[k]]

\* url.shouldEscape(c, encodeQueryComponent): all but letters and digits
\* (and - _ . ~, which the model does not write)
ShouldEscape(c) ==
    ~(Code[c] \in 48..57 \/ Code[c] \in 65..90 \/ Code[c] \in 97..122)

\* url.QueryEscape with every character left as it is
QueryEscape_identity(s) == s

\* url.QueryEscape(s): a space becomes "+", an escaped byte "%XX"
RECURSIVE EscapeFrom(_, _)
EscapeFrom(s, i) ==
    IF i > Len(s) THEN <<>>
    ELSE (IF s[i] = " " THEN <<"+">>
          ELSE IF ShouldEscape(s[i])
               THEN <<"%", HexDigits[(Code[s[i]] \div 16) + 1], HexDigits[(Code[s[i]] % 16) + 1]>>
               ELSE <<s[i]>>)
         \o EscapeFrom(s, i + 1)

QueryEscape(s) == EscapeFrom(s, 1)

\* every "%" of s[i..] is followed by two hex digits
RECURSIVE EscapesValid(_, _)
EscapesValid(s, i) ==
    IF i > Len(s) THEN TRUE
    ELSE IF s[i] = "%"
         THEN /\ i + 2 <= Len(s)
              /\ IsHex(s[i + 1]) /\ IsHex(s[i + 2])
              /\ EscapesValid(s, i + 3)
         ELSE EscapesValid(s, i + 1)

RECURSIVE UnescapeFrom(_, _)
UnescapeFrom(s, i) ==
    IF i > Len(s) THEN <<>>
    ELSE IF s[i] = "%"
         THEN <<CharOf(16 * UnHex(s[i + 1]) + UnHex(s[i + 2]))>> \o UnescapeFrom(s, i + 3)
         ELSE IF s[i] = "+" THEN <<" ">> \o UnescapeFrom(s, i + 1)
         ELSE <<s[i]>> \o UnescapeFrom(s, i + 1)

\* url.QueryUnescape(s)
QueryUnescape(s) ==
    IF EscapesValid(s, 1)
    THEN [s |-> UnescapeFrom(s, 1), err |-> Nil]
    ELSE [s |-> <<>>, err |-> [type |-> "url.EscapeError", msg |-> <<"invalid URL escape">>]]

\* a is before b in byte order
RECURSIVE LessFrom(_, _, _)
LessFrom(a, b, i) ==
    IF i > Len(b) THEN FALSE
    ELSE IF i > Len(a) THEN TRUE
    ELSE IF Code[a[i]] # Code[b[i]] THEN Code[a[i]] < Code[b[i]]
    ELSE LessFrom(a, b, i + 1)

\* sort.Strings of the keys in S
RECURSIVE SortStrings(_)
SortStrings(S) ==
    IF S = {} THEN <<>>
    ELSE With(CHOOSE k \in S : \A j \in S \ {k} : LessFrom(k, j, 1), LAMBDA first :
             <<first>> \o SortStrings(S \ {first}))

\* the pairs key=value of the values vs[j..] of key
RECURSIVE EncodeValues(_, _, _, _)
EncodeValues(key, vs, j, buf) ==
    IF j > Len(vs) THEN buf
    ELSE With(buf \o (IF buf # <<>> THEN <<"&">> ELSE <<>>)
                  \o QueryEscape(key) \o <<"=">> \o QueryEscape(vs[j]), LAMBDA next :
             EncodeValues(key, vs, j + 1, next))

RECURSIVE EncodeKeys(_, _, _, _)
EncodeKeys(v, keys, i, buf) ==
    IF i > Len(keys) THEN buf
    ELSE With(EncodeValues(keys[i], v[keys[i]], 1, buf), LAMBDA next :
             EncodeKeys(v, keys, i + 1, next))

\* Values.Encode(): "key=value" pairs joined by "&", sorted by key
Encode(v) == EncodeKeys(v, SortStrings(DOMAIN v), 1, <<>>)

\* the position of the first c in s[i..], or Len(s) + 1
RECURSIVE IndexFrom(_, _, _)
IndexFrom(s, c, i) ==
    IF i > Len(s) THEN Len(s) + 1
    ELSE IF s[i] = c THEN i
    ELSE IndexFrom(s, c, i + 1)

\* one "key=value" segment of a query added to m
ParsePair(m, seg) ==
    LET eq    == IndexFrom(seg, "=", 1)
        key   == QueryUnescape(SubSeq(seg, 1, eq - 1))
        value == QueryUnescape(SubSeq(seg, eq + 1, Len(seg)))
    IN  IF seg = <<>> THEN [m |-> m, err |-> Nil]
        ELSE IF key.err # Nil THEN [m |-> m, err |-> key.err]
        ELSE IF value.err # Nil THEN [m |-> m, err |-> value.err]
        ELSE [m |-> MapAdd(m, key.s, value.s), err |-> Nil]

\* url.ParseQuery of query[i..]: every segment between "&" is parsed, the
\* first error is kept
RECURSIVE ParseQueryFrom(_, _, _, _)
ParseQueryFrom(query, i, m, saved) ==
    IF i > Len(query) THEN [m |-> m, err |-> saved]
    ELSE With(IndexFrom(query, "&", i), LAMBDA amp :
         With(ParsePair(m, SubSeq(query, i, amp - 1)), LAMBDA r :
             ParseQueryFrom(query, amp + 1, r.m, SaveError(saved, r.err))))

ParseQuery(query) == ParseQueryFrom(query, 1, EmptyMap, Nil)

(***************************************************************************)
(* URLs, requests, the Client.                                             *)
(***************************************************************************)
\* url.Parse(text): a text that starts with ":" has no scheme; the query is
\* what follows the first "?"
ParseURL(text) ==
    IF text # <<>> /\ Head(text) = ":"
    THEN [base |-> <<>>, RawQuery |-> <<>>,
          err |-> [type |-> "url.Error", msg |-> <<"missing protocol scheme">>]]
    ELSE LET q == IndexFrom(text, "?", 1)
         IN  [base |-> SubSeq(text, 1, q - 1),
              RawQuery |-> SubSeq(text, q + 1, Len(text)),
              err |-> Nil]

\* URL.String()
URLString(u) == u.base \o (IF u.RawQuery # <<>> THEN <<"?">> \o u.RawQuery ELSE <<>>)

\* a nil *http.Request
NoRequest ==
    [Method |-> <<>>, URL |-> [base |-> <<>>, RawQuery |-> <<>>], Header |-> EmptyMap]

\* net/http's validMethod: not empty, and token characters only
ValidMethod(method) ==
    /\ method # <<>>
    /\ \A i \in 1..Len(method) : method[i] \notin {" ", "/", ":", "?", "="}

\* http.NewRequest(method, urlStr, nil)
HttpNewRequest(method, urlStr) ==
    LET m == IF method = <<>> THEN <<"G", "E", "T">> ELSE method
        u == ParseURL(urlStr)
    IN  IF ~ValidMethod(m)
        THEN [req |-> NoRequest,
              err |-> [type |-> "errorString", msg |-> <<"net/http: invalid method">>]]
        ELSE IF u.err # Nil THEN [req |-> NoRequest, err |-> u.err]
        ELSE [req |-> [Method |-> m,
                       URL |-> [base |-> u.base, RawQuery |-> u.RawQuery],
                       Header |-> EmptyMap],
              err |-> Nil]

\* for k, v := range params { p.Add(k, v) }, the keys met in the order given
RECURSIVE AddAll(_, _, _, _)
AddAll(p, params, order, i) ==
    IF i > Len(order) THEN p
    ELSE With(MapAdd(p, order[i], params[order[i]]), LAMBDA next :
             AddAll(next, params, order, i + 1))

\* Client.NewRequest adding no header
NewRequest_noHeader(c, params, order, method, endpoint) ==
    LET u == ParseURL(c.URL) IN
    IF u.err # Nil
    THEN [req |-> NoRequest, err |-> Errorf(<<"Error parsing base URL: ">> \o u.err.msg)]
    ELSE LET r == HttpNewRequest(method,
                      URLString([u EXCEPT !.RawQuery = Encode(AddAll(EmptyMap, params, order, 1))]))
         IN  IF r.err # Nil
             THEN [req |-> NoRequest, err |-> Errorf(<<"Error creating request: ">> \o r.err.msg)]
             ELSE [req |-> r.req, err |-> Nil]

\* c.NewRequest(params, method, endpoint); order is the order in which the
\* range over params meets its keys
NewRequest(c, params, order, method, endpoint) ==
    LET u == ParseURL(c.URL) IN
    IF u.err # Nil
    THEN [req |-> NoRequest, err |-> Errorf(<<"Error parsing base URL: ">> \o u.err.msg)]
    ELSE LET p == AddAll(EmptyMap, params, order, 1)
             r == HttpNewRequest(method, URLString([u EXCEPT !.RawQuery = Encode(p)]))
         IN  IF r.err # Nil
             THEN [req |-> NoRequest, err |-> Errorf(<<"Error creating request: ">> \o r.err.msg)]
             ELSE [req |-> [r.req EXCEPT !.Header =
                               MapAdd(@, "Authorization", <<"Bearer ">> \o c.Token)],
                   err |-> Nil]

(***************************************************************************)
(* The callers of the request builder.                                     *)
(***************************************************************************)
Tokens == { <<>>, <<"t0k3n">> }

\* values a caller may store in Client.URL: a test server, a text that is no URL
BaseURLs == { <<"http://127.0.0.1:8080">>, <<":", "//nowhere">> }

Methods == { <<"G", "E", "T">>, <<>>, <<"G", " ", "T">> }

Endpoints == { <<"/droplets">>, <<"/images">> }

\* keys and values of parameters
ParamStrings == { <<>>, <<"a", " ">>, <<"&", "=">>, <<"%", "2", "6">>, <<"+">> }

\* the orders in which a range over a map with keys ks can meet them
Orders(ks) ==
    {o \in [1..Cardinality(ks) -> ks] : \A i, j \in 1..Cardinality(ks) : i # j => o[i] # o[j]}

\* NewClient(token)
NewClient ==
    /\ pc = "start"
    /\ \E token \in Tokens :
          client' = [Token |-> token, URL |-> DIGITALOCEAN_API_URL]
    /\ pc' = "client"
    /\ UNCHANGED <<call, built, arg, heap, ret>>

\* the caller stores another URL in the exported field Client.URL
SetURL ==
    /\ pc = "client"
    /\ \E u \in BaseURLs : client' = [client EXCEPT !.URL = u]
    /\ UNCHANGED <<pc, call, built, arg, heap, ret>>

\* the caller builds a request
CallNewRequest ==
    /\ pc = "client"
    /\ \E ks \in {S \in SUBSET ParamStrings : Cardinality(S) <= MaxParams} :
         \E params \in [ks -> ParamStrings], order \in Orders(ks),
            method \in Methods, endpoint \in Endpoints :
              /\ call' = [params |-> params, method |-> method, endpoint |-> endpoint]
              /\ built' = NewRequest(client, params, order, method, endpoint)
    /\ pc' = "built"
    /\ UNCHANGED <<client, arg, heap, ret>>

InitReq ==
    /\ pc = "start"
    /\ client = NoClient
    /\ call = <<>>
    /\ built = <<>>
    /\ arg = [resp |-> "nil", err |-> Nil]
    /\ heap = NoResponse
    /\ ret = NoRet

NextReq == NewClient \/ SetURL \/ CallNewRequest

SpecReq == InitReq /\ [][NextReq]_vars

(***************************************************************************)
(* Properties of Client.NewRequest.                                        *)
(***************************************************************************)
\* NewRequest has returned a request and no error
Built == pc = "built" /\ built.err = Nil

\* C7: a request NewRequest returns carries one Authorization header, whose
\* value is "Bearer " followed by the Client's token.
C7_OneBearerHeader ==
    Built =>
        /\ "Authorization" \in DOMAIN built.req.Header
        /\ built.req.Header["Authorization"] = << <<"Bearer ">> \o client.Token >>

C7_Witness ==
    /\ Built
    /\ client.Token = <<"t0k3n">>
    /\ built.req.Header["Authorization"] = << <<"Bearer ", "t0k3n">> >>

\* the query of the request built, decoded
Decoded == ParseQuery(built.req.URL.RawQuery)

\* C8: decoding the query string of the request built gives back the pairs
\* of the parameter mapping, no more and no fewer.
C8_QueryRoundTrip ==
    Built =>
        /\ Decoded.err = Nil
        /\ DOMAIN Decoded.m = DOMAIN call.params
        /\ \A k \in DOMAIN call.params : Decoded.m[k] = <<call.params[k]>>

C8_Witness ==
    /\ Built
    /\ DOMAIN call.params = { <<"&", "=">>, <<"%", "2", "6">> }
    /\ call.params[<<"&", "=">>] = <<"a", " ">>
    /\ call.params[<<"%", "2", "6">>] = <<"+">>
    /\ built.req.URL.RawQuery =
          <<"%", "2", "5", "2", "6", "=", "%", "2", "B", "&",
            "%", "2", "6", "%", "3", "D", "=", "a", "+">>

\* C9: the target URL is the base URL, then the endpoint, then the query
\* string, so another endpoint gives another target URL.
C9_URLJoinsEndpoint ==
    Built =>
        /\ URLString(built.req.URL) =
              client.URL \o call.endpoint
                \o (IF built.req.URL.RawQuery # <<>>
                    THEN <<"?">> \o built.req.URL.RawQuery ELSE <<>>)
        /\ \A e \in Endpoints \ {call.endpoint} :
              \A order \in Orders(DOMAIN call.params) :
                 URLString(NewRequest(client, call.params, order, call.method, e).req.URL)
                    # URLString(built.req.URL)

====
